---- MODULE Spec2Model ----
(***************************************************************************)
(* A model of BankStatementOCR/transaction_parser.py: the TransactionParser *)
(* that turns OCR text lines of a French bank statement into transactions.  *)
(*                                                                          *)
(* Text is modelled character by character: a Python str is a sequence of   *)
(* one-character values, and the three regular expressions of the parser    *)
(* are matched over those sequences the way Python's re module matches      *)
(* them (leftmost match, greedy quantifiers).  A character outside ASCII is *)
(* written as a two-symbol name ("e'" is e-acute, "a!" is a-grave,          *)
(* "EUR" is the euro sign); each is ONE element of a sequence.              *)
(***************************************************************************)
EXTENDS Integers, Sequences, FiniteSets, TLC

VARIABLES
    fn,            \* which entry point of TransactionParser is being run
    pc,            \* position in that entry point
    arg,           \* the str argument of parse_amount / parse_date / parse_transaction_line
    year_arg,      \* the year / default_year argument (NoYear is Python's None)
    now_year,      \* what datetime.now().year returns during the call
    pads_year,     \* whether the platform's strftime('%Y') zero-pads to 4 digits
    text_lines,    \* the argument of parse_transactions
    current_year,  \* parse_transactions' local current_year
    idx,           \* number of lines parse_transactions has processed
    transactions,  \* parse_transactions' local list
    ret            \* the value returned

vars == <<fn, pc, arg, year_arg, now_year, pads_year, text_lines,
          current_year, idx, transactions, ret>>

(***************************************************************************)
(* Python values                                                            *)
(***************************************************************************)
\* Python's None, where the other values are records or sequences.
None == [none |-> TRUE]

\* Python's None for the integer parameter `year` (year: int = None).
NoYear == -1

\* The outcome of an expression that raises ValueError.
ValueError == [raised |-> "ValueError"]

\* What has not been assigned yet.
Unset == [unset |-> TRUE]

Min(S) == CHOOSE m \in S : \A n \in S : m <= n

RECURSIVE Pow10(_)
Pow10(n) == IF n = 0 THEN 1 ELSE 10 * Pow10(n - 1)

(***************************************************************************)
(* Characters                                                               *)
(***************************************************************************)
DigitSeq == <<"0", "1", "2", "3", "4", "5", "6", "7", "8", "9">>
UpperSeq == <<"A", "B", "C", "D", "E", "F", "G", "H", "I", "J", "K", "L", "M",
              "N", "O", "P", "Q", "R", "S", "T", "U", "V", "W", "X", "Y", "Z">>
LowerSeq == <<"a", "b", "c", "d", "e", "f", "g", "h", "i", "j", "k", "l", "m",
              "n", "o", "p", "q", "r", "s", "t", "u", "v", "w", "x", "y", "z">>
Range(f) == {f[i] : i \in DOMAIN f}

\* \d
Digits == Range(DigitSeq)
IsDigit(c) == c \in Digits
DigitVal(c) == (CHOOSE k \in DOMAIN DigitSeq : DigitSeq[k] = c) - 1

\* The accented letters of the class [a-zA-Z...] of date_pattern.
AccentedLetters == {"a!", "a^", "a:", "e'", "e!", "e^", "e:", "i:", "i^",
                    "o^", "o:", "u!", "u^", "u:", "y:"}
\* the letter class of date_pattern
Letters == Range(UpperSeq) \cup Range(LowerSeq) \cup AccentedLetters
IsLetter(c) == c \in Letters

\* \s, and what str.strip() removes
IsSpace(c) == c \in {" ", "\t"}

\* \w (for \b)
IsWord(c) == IsDigit(c) \/ IsLetter(c) \/ c = "_"

\* str.lower(), one character
Uppers == Range(UpperSeq)
LowerChar(c) ==
    IF c \in Uppers
    THEN LowerSeq[CHOOSE k \in DOMAIN UpperSeq : UpperSeq[k] = c]
    ELSE c
\* str.lower()
Lower(s) == [i \in DOMAIN s |-> LowerChar(s[i])]

\* s[i:] of Python, with i a 0-based offset
From(s, i) == SubSeq(s, i + 1, Len(s))

RECURSIVE SkipSpace(_, _)
\* the first 1-based index >= i of s that holds no whitespace (\s* from i)
SkipSpace(s, i) == IF i <= Len(s) /\ IsSpace(s[i]) THEN SkipSpace(s, i + 1) ELSE i

RECURSIVE SkipLetters(_, _)
\* the first 1-based index >= i of s that holds no letter ([letters]+ from i)
SkipLetters(s, i) == IF i <= Len(s) /\ IsLetter(s[i]) THEN SkipLetters(s, i + 1) ELSE i

RECURSIVE SkipSpaceBack(_, _)
\* the last 1-based index <= i of s that holds no whitespace
SkipSpaceBack(s, i) == IF i >= 1 /\ IsSpace(s[i]) THEN SkipSpaceBack(s, i - 1) ELSE i

\* str.strip()
Strip(s) ==
    LET a == SkipSpace(s, 1)
        b == SkipSpaceBack(s, Len(s))
    IN IF a > b THEN <<>> ELSE SubSeq(s, a, b)

\* str.replace(c, empty) for one character c
Remove(s, c) == SelectSeq(s, LAMBDA x : x # c)

\* str.replace(c, d) for characters c and d
Replace(s, c, d) == [i \in DOMAIN s |-> IF s[i] = c THEN d ELSE s[i]]

\* c in s
Contains(s, c) == \E i \in DOMAIN s : s[i] = c

RECURSIVE IntOf(_)
\* int(s) for a string of decimal digits
IntOf(s) == IF s = <<>> THEN 0 ELSE 10 * IntOf(SubSeq(s, 1, Len(s) - 1)) + DigitVal(s[Len(s)])

(***************************************************************************)
(* Numbers: a Python float that float() read from a decimal numeral is the  *)
(* exact decimal sign * mant / 10^scale, with no trailing zero in mant      *)
(* while scale > 0 (so 5.90 and 5.9 are one value).  Binary rounding is not *)
(* modelled.                                                                *)
(***************************************************************************)
RECURSIVE Normal(_)
Normal(x) ==
    IF x.scale > 0 /\ x.mant % 10 = 0
    THEN Normal([x EXCEPT !.mant = x.mant \div 10, !.scale = x.scale - 1])
    ELSE x

\* 0.0, the value of parse_amount's except branch
Zero == [neg |-> FALSE, mant |-> 0, scale |-> 0]

\* x < 0 and x > 0 of Python floats (-0.0 is neither)
IsNegative(x) == x.neg /\ x.mant > 0
IsPositive(x) == ~x.neg /\ x.mant > 0

\* abs(x)
Abs(x) == [x EXCEPT !.neg = FALSE]

\* float(s) for a str s: surrounding whitespace is ignored, then an optional
\* sign and a decimal numeral with at least one digit and at most one point;
\* anything else raises ValueError.  (The exponent, underscore, inf and nan
\* forms need characters that no modelled amount string holds.)
PyFloat(s) ==
    LET t == Strip(s)
        signed == t # <<>> /\ t[1] \in {"+", "-"}
        body == IF signed THEN Tail(t) ELSE t
        points == {i \in DOMAIN body : body[i] = "."}
        wellformed == /\ \A i \in DOMAIN body : IsDigit(body[i]) \/ body[i] = "."
                      /\ Cardinality(points) <= 1
                      /\ \E i \in DOMAIN body : IsDigit(body[i])
    IN IF ~wellformed THEN ValueError
       ELSE Normal([neg |-> signed /\ t[1] = "-",
                    mant |-> IntOf(Remove(body, ".")),
                    scale |-> IF points = {} THEN 0
                              ELSE Len(body) - (CHOOSE i \in points : TRUE)])

(***************************************************************************)
(* parse_amount                                                             *)
(***************************************************************************)
\* A plausible slip: the '.' of "1.234,56" is kept as a decimal point too.
parse_amount_keeps_dots(amount_str) ==
    LET s1 == Strip(Remove(amount_str, "EUR"))
        s2 == IF Contains(s1, ",") THEN Replace(s1, ",", ".") ELSE s1
        f == PyFloat(Remove(s2, " "))
    IN IF f = ValueError THEN Zero ELSE f

\* parse_amount(amount_str): the float, 0.0 when float() raises ValueError
parse_amount(amount_str) ==
    LET s1 == Strip(Remove(amount_str, "EUR"))
        s2 == IF Contains(s1, ",") /\ Contains(s1, ".")
              THEN Replace(Remove(s1, "."), ",", ".")
              ELSE IF Contains(s1, ",")
                   THEN Replace(s1, ",", ".")
                   ELSE s1
        s3 == Remove(s2, " ")
        f == PyFloat(s3)
    IN IF f = ValueError THEN Zero ELSE f

(***************************************************************************)
(* The regular expressions.  A match is a record with Python's offsets:     *)
(* start (0-based, inclusive) and end (exclusive), and its groups.          *)
(***************************************************************************)
NoMatch == [ok |-> FALSE]

RECURSIVE TakeDigits(_, _, _)
\* \d{0,n} from 1-based index i: the index after the digits taken
TakeDigits(s, i, n) ==
    IF n > 0 /\ i <= Len(s) /\ IsDigit(s[i]) THEN TakeDigits(s, i + 1, n - 1) ELSE i

\* \.? from 1-based index i
TakePoint(s, i) == IF i <= Len(s) /\ s[i] = "." THEN i + 1 ELSE i

\* (\d{4})? from 1-based index y: whether it takes four digits
TakesYear(s, y) == TakeDigits(s, y, 4) = y + 4

\* date_pattern = (\d{1,2})\s*([letters]+)\.?\s*(\d{4})?  matched at 1-based
\* index i, in four steps: the day, the month letters, the point and the
\* whitespace, the year.  \d{1,2} takes two digits when it can: with one
\* digit the second would have to start \s*[letters]+.  Everything after the
\* letters is optional, so the greedy choices stand.
\* The match, the day ending before dayEnd, the letters standing in
\* l0..l1-1 and \.?\s* ending before y0:
DateMatchYear(s, i, dayEnd, l0, l1, y0) ==
    [ok |-> TRUE,
     start |-> i - 1,
     end |-> IF TakesYear(s, y0) THEN y0 + 3 ELSE y0 - 1,
     g1 |-> SubSeq(s, i, dayEnd - 1),
     g2 |-> SubSeq(s, l0, l1 - 1),
     g3 |-> IF TakesYear(s, y0) THEN SubSeq(s, y0, y0 + 3) ELSE None]

DateMatchPoint(s, i, dayEnd, l0, l1) ==
    DateMatchYear(s, i, dayEnd, l0, l1, SkipSpace(s, TakePoint(s, l1)))

DateMatchMonth(s, i, dayEnd, l0) ==
    IF ~(l0 <= Len(s) /\ IsLetter(s[l0])) THEN NoMatch
    ELSE DateMatchPoint(s, i, dayEnd, l0, SkipLetters(s, l0))

DateMatchDay(s, i, dayEnd) == DateMatchMonth(s, i, dayEnd, SkipSpace(s, dayEnd))

DateMatchAt(s, i) ==
    IF ~(i <= Len(s) /\ IsDigit(s[i])) THEN NoMatch
    ELSE DateMatchDay(s, i, TakeDigits(s, i, 2))

RECURSIVE DateSearchFrom(_, _)
\* the match m at 1-based index i if it is one, else the first one after i
DateSearchAt(s, i, m) == IF m.ok THEN m ELSE DateSearchFrom(s, i + 1)

\* the first match at a 1-based index >= i
DateSearchFrom(s, i) ==
    IF i > Len(s) THEN NoMatch ELSE DateSearchAt(s, i, DateMatchAt(s, i))

\* re.search(self.date_pattern, s): the leftmost match
date_pattern(s) == DateSearchFrom(s, 1)

RECURSIVE SkipThousands(_, _)
\* (?:[,.\s]\d{3})* from 1-based index k: the index after the last group
SkipThousands(s, k) ==
    IF /\ k + 3 <= Len(s)
       /\ (s[k] \in {",", "."} \/ IsSpace(s[k]))
       /\ \A j \in 1..3 : IsDigit(s[k + j])
    THEN SkipThousands(s, k + 4)
    ELSE k

\* [+-]? from 1-based index i
TakeSign(s, i) == IF i <= Len(s) /\ s[i] \in {"+", "-"} THEN i + 1 ELSE i

\* [,.]? from 1-based index i
TakeSeparator(s, i) == IF i <= Len(s) /\ s[i] \in {",", "."} THEN i + 1 ELSE i

\* \d{1,3}(?:[,.\s]\d{3})*[,.]?\d{0,2} from 1-based index d, where a digit
\* stands: the index after the match
NumberEnd(s, d) ==
    TakeDigits(s, TakeSeparator(s, SkipThousands(s, TakeDigits(s, d, 3))), 2)

\* amount_pattern = EUR\s*([+-]?\d{1,3}(?:[,.\s]\d{3})*[,.]?\d{0,2})  matched
\* at 1-based index i.  Once \d{1,3} has a digit the rest is optional, so the
\* greedy choices stand; a sign that no digit follows fails the match.
\* The match, group 1 starting at g:
AmountMatchGroup(s, i, g) ==
    IF TakeDigits(s, TakeSign(s, g), 1) = TakeSign(s, g) THEN NoMatch
    ELSE [ok |-> TRUE,
          start |-> i - 1,
          end |-> NumberEnd(s, TakeSign(s, g)) - 1,
          g1 |-> SubSeq(s, g, NumberEnd(s, TakeSign(s, g)) - 1)]

AmountMatchAt(s, i) ==
    IF ~(i <= Len(s) /\ s[i] = "EUR") THEN NoMatch
    ELSE AmountMatchGroup(s, i, SkipSpace(s, i + 1))

RECURSIVE AmountSearchFrom(_, _)
\* the match m at 1-based index i if it is one, else the first one after i
AmountSearchAt(s, i, m) == IF m.ok THEN m ELSE AmountSearchFrom(s, i + 1)

\* the first match at a 1-based index >= i
AmountSearchFrom(s, i) ==
    IF i > Len(s) THEN NoMatch ELSE AmountSearchAt(s, i, AmountMatchAt(s, i))

\* re.search(self.amount_pattern, s): the leftmost match
amount_pattern(s) == AmountSearchFrom(s, 1)

RECURSIVE FindAllAmounts(_, _)
\* re.findall from offset pos, the next match being m
FindAllAfter(s, pos, m) ==
    IF ~m.ok THEN <<>>
    ELSE <<m.g1>> \o FindAllAmounts(s, pos + m.end)

\* re.findall(self.amount_pattern, s) from offset pos: group 1 of every
\* match, left to right, each search resuming where the last match ended
FindAllAmounts(s, pos) == FindAllAfter(s, pos, amount_pattern(From(s, pos)))

\* \b(20\d{2})\b matched at 1-based index i
YearMatchAt(s, i) ==
    /\ i + 3 <= Len(s)
    /\ s[i] = "2" /\ s[i + 1] = "0" /\ IsDigit(s[i + 2]) /\ IsDigit(s[i + 3])
    /\ (i = 1 \/ ~IsWord(s[i - 1]))
    /\ (i + 4 > Len(s) \/ ~IsWord(s[i + 4]))

RECURSIVE YearSearchFrom(_, _)
\* group 1 of the first match at a 1-based index >= i, or None
YearSearchFrom(s, i) ==
    IF i > Len(s) THEN None
    ELSE IF YearMatchAt(s, i) THEN SubSeq(s, i, i + 3)
    ELSE YearSearchFrom(s, i + 1)

\* re.search(r'\b(20\d{2})\b', s): group 1 of the leftmost match, or None
year_pattern(s) == YearSearchFrom(s, 1)

RECURSIVE CollapseSpace(_)
\* re.sub(r'\s+', ' ', s)
CollapseSpace(s) ==
    IF s = <<>> THEN <<>>
    ELSE IF IsSpace(s[1])
         THEN <<" ">> \o CollapseSpace(From(s, SkipSpace(s, 1) - 1))
         ELSE <<s[1]>> \o CollapseSpace(Tail(s))

(***************************************************************************)
(* parse_date                                                               *)
(***************************************************************************)
\* self.french_months
french_months ==
    (<<"j", "a", "n", "v">> :> 1) @@ (<<"j", "a", "n">> :> 1) @@
    (<<"f", "e'", "v", "r">> :> 2) @@ (<<"f", "e'", "v">> :> 2) @@
    (<<"f", "e", "b">> :> 2) @@
    (<<"m", "a", "r", "s">> :> 3) @@ (<<"m", "a", "r">> :> 3) @@
    (<<"a", "v", "r">> :> 4) @@ (<<"a", "v", "r", "i", "l">> :> 4) @@
    (<<"m", "a", "i">> :> 5) @@
    (<<"j", "u", "i", "n">> :> 6) @@ (<<"j", "u", "n">> :> 6) @@
    (<<"j", "u", "i", "l">> :> 7) @@
    (<<"j", "u", "i", "l", "l", "e", "t">> :> 7) @@
    (<<"a", "o", "u^", "t">> :> 8) @@ (<<"a", "o", "u">> :> 8) @@
    (<<"a", "o", "u", "t">> :> 8) @@
    (<<"s", "e", "p", "t">> :> 9) @@ (<<"s", "e", "p">> :> 9) @@
    (<<"o", "c", "t">> :> 10) @@ (<<"o", "c", "t", "o", "b", "r", "e">> :> 10) @@
    (<<"n", "o", "v">> :> 11) @@
    (<<"n", "o", "v", "e", "m", "b", "r", "e">> :> 11) @@
    (<<"d", "e'", "c">> :> 12) @@ (<<"d", "e", "c">> :> 12) @@
    (<<"d", "e'", "c", "e", "m", "b", "r", "e">> :> 12)

RECURSIVE RStripDot(_)
\* str.rstrip('.')
RStripDot(s) ==
    IF s # <<>> /\ s[Len(s)] = "." THEN RStripDot(SubSeq(s, 1, Len(s) - 1)) ELSE s

IsLeap(y) == y % 4 = 0 /\ (y % 100 # 0 \/ y % 400 = 0)

DaysInMonth(y, m) ==
    IF m = 2 THEN (IF IsLeap(y) THEN 29 ELSE 28)
    ELSE IF m \in {4, 6, 9, 11} THEN 30 ELSE 31

\* whether datetime(y, m, d) is a date; it raises ValueError otherwise
ValidDate(y, m, d) ==
    /\ 1 <= y /\ y <= 9999
    /\ 1 <= m /\ m <= 12
    /\ 1 <= d /\ d <= DaysInMonth(y, m)

RECURSIVE DigitsOf(_)
\* str(n) for n >= 0
DigitsOf(n) ==
    IF n < 10 THEN <<DigitSeq[n + 1]>>
    ELSE DigitsOf(n \div 10) \o <<DigitSeq[(n % 10) + 1]>>

RECURSIVE ZeroPad(_, _)
ZeroPad(s, w) == IF Len(s) >= w THEN s ELSE ZeroPad(<<"0">> \o s, w)

\* date_obj.strftime('%Y-%m-%d').  %m and %d are two digits; %Y is the C
\* library's: four digits zero-padded on some platforms, unpadded on others.
strftime(y, m, d) ==
    (IF pads_year THEN ZeroPad(DigitsOf(y), 4) ELSE DigitsOf(y))
    \o <<"-">> \o ZeroPad(DigitsOf(m), 2) \o <<"-">> \o ZeroPad(DigitsOf(d), 2)

\* A plausible slip: the caller's year wins over the date's own year.
parse_date_prefers_argument(date_str, year) ==
    LET match == date_pattern(Lower(date_str))
    IN IF ~match.ok THEN None
       ELSE LET day == IntOf(match.g1)
                month_str == RStripDot(Lower(match.g2))
            IN IF month_str \notin DOMAIN french_months THEN None
               ELSE LET month == french_months[month_str]
                        y == IF year # NoYear THEN year
                             ELSE IF match.g3 # None THEN IntOf(match.g3)
                                  ELSE now_year
                    IN IF ValidDate(y, month, day)
                       THEN strftime(y, month, day)
                       ELSE None

\* parse_date, from `date_obj = datetime(year, month, day)` on: the
\* ValueError that datetime raises is caught and None returned.
DateOf(year, month, day) ==
    IF ValidDate(year, month, day) THEN strftime(year, month, day) ELSE None

\* parse_date, from `if year_str:` on, with the year that is used
DateInYear(day, month, year_str, year) ==
    DateOf(IF year_str # None THEN IntOf(year_str)
           ELSE IF year = NoYear THEN now_year
           ELSE year,
           month, day)

\* parse_date, from `month = self.french_months.get(month_str)` on
DateInMonth(day, month_str, year_str, year) ==
    IF month_str \notin DOMAIN french_months THEN None
    ELSE DateInYear(day, french_months[month_str], year_str, year)

\* parse_date, from `if not match:` on
DateOfMatch(match, year) ==
    IF ~match.ok THEN None
    ELSE DateInMonth(IntOf(match.g1), RStripDot(Lower(match.g2)), match.g3, year)

\* parse_date(date_str, year): the ISO date, or None
parse_date(date_str, year) == DateOfMatch(date_pattern(Lower(date_str)), year)

(***************************************************************************)
(* extract_amounts                                                          *)
(***************************************************************************)
\* [self.parse_amount(a) for a in amounts]
ParseEach(amounts) == [k \in DOMAIN amounts |-> parse_amount(amounts[k])]

\* parsed_amounts of extract_amounts(line)
ParsedAmounts(line) == ParseEach(FindAllAmounts(line, 0))

\* A plausible slip: the sign of a two-amount line's first amount is kept.
extract_amounts_keeps_sign(line) ==
    LET parsed_amounts == ParsedAmounts(line)
        n == Len(parsed_amounts)
    IN IF n >= 2
       THEN IF n = 2
            THEN [amount_out |-> parsed_amounts[1], amount_in |-> None,
                  balance |-> parsed_amounts[n]]
            ELSE [amount_out |-> IF IsPositive(parsed_amounts[1])
                                 THEN parsed_amounts[1] ELSE None,
                  amount_in |-> parsed_amounts[2],
                  balance |-> parsed_amounts[n]]
       ELSE [amount_out |-> None, amount_in |-> None, balance |-> None]

\* A plausible slip: the third amount, not the last, is taken as the balance.
extract_amounts_third_is_balance(line) ==
    LET parsed_amounts == ParsedAmounts(line)
        n == Len(parsed_amounts)
    IN IF n >= 2
       THEN IF n = 2
            THEN [amount_out |-> Abs(parsed_amounts[1]), amount_in |-> None,
                  balance |-> parsed_amounts[n]]
            ELSE [amount_out |-> IF IsPositive(parsed_amounts[1])
                                 THEN parsed_amounts[1] ELSE None,
                  amount_in |-> parsed_amounts[2],
                  balance |-> parsed_amounts[3]]
       ELSE [amount_out |-> None, amount_in |-> None, balance |-> None]

\* extract_amounts, from `if len(parsed_amounts) >= 2:` on
AmountRoles(parsed_amounts) ==
    IF Len(parsed_amounts) >= 2
    THEN IF Len(parsed_amounts) = 2
         THEN [amount_out |-> IF IsNegative(parsed_amounts[1])
                              THEN Abs(parsed_amounts[1])
                              ELSE parsed_amounts[1],
               amount_in |-> None,
               balance |-> parsed_amounts[Len(parsed_amounts)]]
         ELSE [amount_out |-> IF IsPositive(parsed_amounts[1])
                              THEN parsed_amounts[1] ELSE None,
               amount_in |-> IF Len(parsed_amounts) > 2
                             THEN parsed_amounts[2] ELSE None,
               balance |-> parsed_amounts[Len(parsed_amounts)]]
    ELSE [amount_out |-> None, amount_in |-> None, balance |-> None]

\* extract_amounts(line): (amount_out, amount_in, balance)
extract_amounts(line) == AmountRoles(ParsedAmounts(line))

(***************************************************************************)
(* is_transaction_line, parse_transaction_line                              *)
(***************************************************************************)
\* 20 <= len(line) <= 200
MinLineLen == 20
MaxLineLen == 200

\* A plausible slip: the upper length limit is forgotten.
is_transaction_line_no_upper_limit(line) ==
    LET has_date == date_pattern(Lower(line)).ok
        has_amount == amount_pattern(line).ok
        reasonable_length == MinLineLen <= Len(line)
    IN has_date /\ has_amount /\ reasonable_length

\* is_transaction_line(line)
is_transaction_line(line) ==
    LET has_date == date_pattern(Lower(line)).ok
        has_amount == amount_pattern(line).ok
        reasonable_length == MinLineLen <= Len(line) /\ Len(line) <= MaxLineLen
    IN has_date /\ has_amount /\ reasonable_length

\* A plausible slip: the description is not stripped.
parse_transaction_line_unstripped(line, default_year) ==
    IF ~is_transaction_line(line) THEN None
    ELSE LET date_match == date_pattern(Lower(line))
             parsed_date == parse_date(SubSeq(Lower(line), date_match.start + 1,
                                              date_match.end), default_year)
             amount_match == amount_pattern(From(line, date_match.end))
         IN IF parsed_date = None \/ ~amount_match.ok THEN None
            ELSE LET amounts == extract_amounts(From(line, date_match.end))
                 IN [date |-> parsed_date,
                     description |-> SubSeq(line, date_match.end + 1,
                                            date_match.end + amount_match.start),
                     amount_out |-> amounts.amount_out,
                     amount_in |-> amounts.amount_in,
                     balance |-> amounts.balance]

\* A plausible slip: a date that does not parse no longer rejects the line.
parse_transaction_line_keeps_bad_date(line, default_year) ==
    IF ~is_transaction_line(line) THEN None
    ELSE LET date_match == date_pattern(Lower(line))
             parsed_date == parse_date(SubSeq(Lower(line), date_match.start + 1,
                                              date_match.end), default_year)
             amount_match == amount_pattern(From(line, date_match.end))
         IN IF ~amount_match.ok THEN None
            ELSE LET amounts == extract_amounts(From(line, date_match.end))
                 IN [date |-> parsed_date,
                     description |-> CollapseSpace(Strip(
                         SubSeq(line, date_match.end + 1,
                                date_match.end + amount_match.start))),
                     amount_out |-> amounts.amount_out,
                     amount_in |-> amounts.amount_in,
                     balance |-> amounts.balance]

\* parse_transaction_line, the dict it returns
Transaction(parsed_date, description, amounts) ==
    [date |-> parsed_date,
     description |-> description,
     amount_out |-> amounts.amount_out,
     amount_in |-> amounts.amount_in,
     balance |-> amounts.balance]

\* parse_transaction_line, from `if not amount_match:` on: the description
\* is line[date_end:date_end + amount_match.start()], stripped, its
\* whitespace collapsed; the amounts are those of line[date_end:]
LineWithAmount(line, parsed_date, date_end, amount_match) ==
    IF ~amount_match.ok THEN None
    ELSE Transaction(parsed_date,
                     CollapseSpace(Strip(SubSeq(line, date_end + 1,
                                                date_end + amount_match.start))),
                     extract_amounts(From(line, date_end)))

\* parse_transaction_line, from `if not parsed_date:` on
LineWithDate(line, parsed_date, date_end) ==
    IF parsed_date = None \/ parsed_date = <<>> THEN None
    ELSE LineWithAmount(line, parsed_date, date_end,
                        amount_pattern(From(line, date_end)))

\* parse_transaction_line, from `if not date_match:` on: date_str is
\* date_match.group(0)
LineWithMatch(line, default_year, date_match) ==
    IF ~date_match.ok THEN None
    ELSE LineWithDate(line,
                      parse_date(SubSeq(Lower(line), date_match.start + 1,
                                        date_match.end), default_year),
                      date_match.end)

\* parse_transaction_line(line, default_year): the transaction, or None.
\* No statement of the try block raises for a str line, so its except
\* branch is never taken.
parse_transaction_line(line, default_year) ==
    IF ~is_transaction_line(line) THEN None
    ELSE LineWithMatch(line, default_year, date_pattern(Lower(line)))

(***************************************************************************)
(* parse_transactions                                                       *)
(***************************************************************************)
\* text_lines[:10]
YearScanLines == 10

RECURSIVE FirstYearFrom(_, _, _)
\* `if year_match: ... break` for the 1-based line k
FirstYearAt(lines, k, limit, year_match) ==
    IF year_match # None THEN year_match ELSE FirstYearFrom(lines, k + 1, limit)

\* the loop over text_lines[:limit] from 1-based line k: the year of the
\* first line that holds one (break), or None
FirstYearFrom(lines, k, limit) ==
    IF k > Len(lines) \/ k > limit THEN None
    ELSE FirstYearAt(lines, k, limit, year_pattern(lines[k]))

\* current_year after the year loop that found `found`
YearOrNow(found) == IF found = None THEN now_year ELSE IntOf(found)

\* A plausible slip: every line is searched for the year, not the first ten.
document_year_all_lines(lines) == YearOrNow(FirstYearFrom(lines, 1, Len(lines)))

\* current_year once the year loop of parse_transactions has run
document_year(lines) == YearOrNow(FirstYearFrom(lines, 1, YearScanLines))

\* ord(c) for the characters of a date
CodePoint(c) == IF c = "-" THEN 45 ELSE 48 + DigitVal(c)

RECURSIVE StrLess(_, _)
\* a < b of two str
StrLess(a, b) ==
    IF b = <<>> THEN FALSE
    ELSE IF a = <<>> THEN TRUE
    ELSE IF a[1] # b[1] THEN CodePoint(a[1]) < CodePoint(b[1])
    ELSE StrLess(Tail(a), Tail(b))

RECURSIVE InsertByDate(_, _)
\* x put after every element whose date is not greater
InsertByDate(sorted, x) ==
    IF sorted = <<>> THEN <<x>>
    ELSE IF StrLess(x.date, Head(sorted).date) THEN <<x>> \o sorted
    ELSE <<Head(sorted)>> \o InsertByDate(Tail(sorted), x)

RECURSIVE InsertBeforeEqual(_, _)
InsertBeforeEqual(sorted, x) ==
    IF sorted = <<>> THEN <<x>>
    ELSE IF ~StrLess(Head(sorted).date, x.date) THEN <<x>> \o sorted
    ELSE <<Head(sorted)>> \o InsertBeforeEqual(Tail(sorted), x)

RECURSIVE SortWith(_, _)
SortWith(list, done) ==
    IF list = <<>> THEN done
    ELSE SortWith(Tail(list), InsertByDate(done, Head(list)))

RECURSIVE SortUnstableWith(_, _)
SortUnstableWith(list, done) ==
    IF list = <<>> THEN done
    ELSE SortUnstableWith(Tail(list), InsertBeforeEqual(done, Head(list)))

\* A plausible slip: a sort that is not stable (equal dates change places).
sort_by_date_unstable(list) == SortUnstableWith(list, <<>>)

\* transactions.sort(key=lambda x: x['date']): list.sort is stable
sort_by_date(list) == SortWith(list, <<>>)

(***************************************************************************)
(* Inputs                                                                   *)
(***************************************************************************)
\* Bounds of the model.
MaxAmountLen == 4
MaxDay == 32
MaxAmounts == 4
MaxPrefix == 10
MaxTail == 3

\* Values of datetime.now().year: a leap year and a common year.
NowYears == {2024, 2026}

\* Every str over Alphabet of at most n characters.
StringsUpTo(Alphabet, n) == UNION {[1..k -> Alphabet] : k \in 0..n}

\* Every sequence over S of at most n elements.
SeqsUpTo(S, n) == UNION {[1..k -> S] : k \in 0..n}

RECURSIVE Join(_, _)
\* sep.join(parts)
Join(parts, sep) ==
    IF parts = <<>> THEN <<>>
    ELSE IF Len(parts) = 1 THEN parts[1]
    ELSE parts[1] \o sep \o Join(Tail(parts), sep)

\* n spaces
Spaces(n) == [i \in 1..n |-> " "]

\* Arguments of parse_amount: every short string over the euro sign, digits,
\* both separators, a space, a sign and a character that belongs to no
\* number; and the amounts of the docstring and of bank statements.
AmountAlphabet == {"EUR", "0", "1", ",", ".", " ", "-", "x"}
AmountExamples ==
    {<<"EUR", "5", ".", "9", "0">>,
     <<"EUR", "1", ".", "2", "3", "4", ",", "5", "6">>,
     <<"EUR", "5", "9", "0", ",", "0", "0">>,
     <<"g", "a", "r", "b", "a", "g", "e">>,
     <<"EUR", " ", "1", " ", "2", "3", "4", ",", "5", "6", " ">>,
     <<"EUR", "1", "2", ",", "9", "0">>}
AmountStrings == StringsUpTo(AmountAlphabet, MaxAmountLen) \cup AmountExamples

\* Arguments of parse_date: a day, then a month text, then a year text.
MonthTexts ==
    {<<" ", "a", "v", "r", ".">>,
     <<"a", "v", "r">>,
     <<" ", "f", "e'", "v", "r">>,
     <<" ", "A", "V", "R", ".", " ">>,
     <<" ", "x", "y", "z">>,
     <<" ", "j", "a", "n", "v", ".">>}
YearTexts ==
    {<<>>,
     <<" ", "2", "0", "2", "5">>,
     <<" ", "0", "9", "9", "9">>,
     <<"2", "0", "2", "4">>,
     <<" ", "0", "0", "0", "0">>}
DateStrings ==
    {DigitsOf(d) \o m \o y : d \in 0..MaxDay, m \in MonthTexts, y \in YearTexts}
YearArgs == {NoYear, 2020, 2023}

\* Arguments of parse_transaction_line: a date, a description, padding that
\* brings the line to a chosen length (0: no padding), and amount tokens.
\* RoleLines vary the amounts (up to MaxAmounts of them), LengthLines the
\* length and what stands between the amounts.
LineDates ==
    {<<"1", " ", "a", "v", "r", ".", " ", "2", "0", "2", "5", " ">>,
     <<"1", "5", " ", "j", "a", "n", "v", " ">>,
     <<"3", "1", " ", "a", "v", "r", ".", " ", "2", "0", "2", "5", " ">>,
     <<>>}
LineDescriptions ==
    {<<"C", "i", "g", "u", "s", "t", "o", " ", "O", "r", "l", "e", "a", "n", "s", " ">>,
     <<"a", "\t", " ", "b", " ">>}
RoleTokens ==
    {<<"EUR", "5", ".", "9", "0">>,
     <<"EUR", " ", "-", "3", ".", "0", "0">>,
     <<"EUR", "1", ".", "2", "3", "4", ".", "5", "6", "7">>}
LengthTokens ==
    {<<"EUR", "5", ".", "9", "0">>,
     <<"EUR", "3", "0", ".", "6", "1">>,
     <<"EUR", "5">>,
     <<"2", "5", "0">>}
TargetLens == {0, MinLineLen - 1, MinLineLen, MaxLineLen, MaxLineLen + 1}
MakeLine(date, description, amounts, target) ==
    LET tail == Join(amounts, <<" ">>)
        core == Len(date) + Len(description) + Len(tail)
    IN date \o description
       \o (IF target > core THEN Spaces(target - core) ELSE <<>>) \o tail
RoleLines ==
    {MakeLine(d, <<"R", "e", "f", "u", "n", "d", " ", "x", "x", " ">>, a, 0) :
        d \in LineDates, a \in SeqsUpTo(RoleTokens, MaxAmounts)}
LengthLines ==
    {MakeLine(d, t, a, n) : d \in LineDates, t \in LineDescriptions,
                            a \in SeqsUpTo(LengthTokens, 2), n \in TargetLens}
Lines == RoleLines \cup LengthLines
DefaultYears == {NoYear, 2020}

\* Arguments of parse_transactions: statements of up to MaxTail lines, and
\* statements of up to two lines after a prefix of lines that hold neither
\* a year nor a transaction.
FillerLine == <<"p", "a", "g", "e", " ", "x">>
DocLines ==
    {<<"R", "e", "l", "e", "v", "e", " ", "d", "e", " ", "c", "o", "m", "p", "t", "e", " ", "2", "0", "2", "3">>,
     <<"P", "e", "r", "i", "o", "d", "e", " ", "2", "0", "2", "1", " ", "a", " ", "2", "0", "2", "2">>,
     <<"1", "5", " ", "j", "a", "n", "v", " ", "C", "a", "r", "r", "e", "f", "o", "u", "r", " ", "x", "x", " ", "EUR", "2", ".", "5", "4", " ", "EUR", "2", "8", ".", "0", "7">>,
     <<"1", " ", "a", "v", "r", ".", " ", "2", "0", "2", "5", " ", "C", "i", "g", "u", "s", "t", "o", " ", "O", "r", "l", "e", "a", "n", "s", " ", "EUR", "5", ".", "9", "0", " ", "EUR", "3", "0", ".", "6", "1">>,
     <<"1", "5", " ", "j", "a", "n", "v", " ", "T", "a", "b", "a", "c", " ", "x", "x", "x", "x", "x", "x", "x", " ", "EUR", "2", "6", ".", "0", "0", " ", "EUR", "5", "7", "4", ".", "4", "4">>,
     <<"3", " ", "j", "a", "n", "v", " ", "P", "a", "y", "m", "e", "n", "t", " ", "x", "x", "x", "x", "x", "x", "x", " ", "EUR", "5", "9", "0", ".", "0", "0", " ", "EUR", "5", "9", "3", ".", "9", "4">>,
     <<"3", "1", " ", "a", "v", "r", ".", " ", "2", "0", "2", "5", " ", "x", "x", "x", "x", "x", "x", "x", "x", "x", "x", " ", "EUR", "1", ".", "0", "0", " ", "EUR", "2", ".", "0", "0">>}
PrefixLens == {YearScanLines - 1} \cup (YearScanLines .. MaxPrefix)
Documents ==
    SeqsUpTo(DocLines, MaxTail)
    \cup {[i \in 1..n |-> FillerLine] \o t :
             n \in PrefixLens, t \in SeqsUpTo(DocLines, 2)}

(***************************************************************************)
(* The calls.  Each specification starts in a call of one entry point with  *)
(* arguments drawn from the input sets; what the entry point has no use     *)
(* for is Unset.                                                            *)
(***************************************************************************)
InitAmount ==
    /\ fn = "parse_amount" /\ pc = "call"
    /\ arg \in AmountStrings
    /\ year_arg = NoYear /\ now_year = Unset /\ pads_year = Unset
    /\ text_lines = Unset /\ current_year = Unset /\ idx = 0
    /\ transactions = Unset /\ ret = Unset

InitDate ==
    /\ fn = "parse_date" /\ pc = "call"
    /\ arg \in DateStrings
    /\ year_arg \in YearArgs /\ now_year \in NowYears /\ pads_year \in BOOLEAN
    /\ text_lines = Unset /\ current_year = Unset /\ idx = 0
    /\ transactions = Unset /\ ret = Unset

InitLine ==
    /\ fn = "parse_transaction_line" /\ pc = "call"
    /\ arg \in Lines
    /\ year_arg \in DefaultYears /\ now_year \in NowYears /\ pads_year \in BOOLEAN
    /\ text_lines = Unset /\ current_year = Unset /\ idx = 0
    /\ transactions = Unset /\ ret = Unset

InitDocument ==
    /\ fn = "parse_transactions" /\ pc = "find_year"
    /\ arg = Unset /\ year_arg = NoYear
    /\ now_year \in NowYears /\ pads_year \in BOOLEAN
    /\ text_lines \in Documents
    /\ current_year = Unset /\ idx = 0
    /\ transactions = <<>> /\ ret = Unset

\* parse_amount(arg) runs and returns
ParseAmount ==
    /\ fn = "parse_amount" /\ pc = "call"
    /\ ret' = parse_amount(arg)
    /\ pc' = "done"
    /\ UNCHANGED <<fn, arg, year_arg, now_year, pads_year, text_lines,
                   current_year, idx, transactions>>

\* parse_date(arg, year_arg) runs and returns
ParseDate ==
    /\ fn = "parse_date" /\ pc = "call"
    /\ ret' = parse_date(arg, year_arg)
    /\ pc' = "done"
    /\ UNCHANGED <<fn, arg, year_arg, now_year, pads_year, text_lines,
                   current_year, idx, transactions>>

\* parse_transaction_line(arg, year_arg) runs and returns
ParseTransactionLine ==
    /\ fn = "parse_transaction_line" /\ pc = "call"
    /\ ret' = parse_transaction_line(arg, year_arg)
    /\ pc' = "done"
    /\ UNCHANGED <<fn, arg, year_arg, now_year, pads_year, text_lines,
                   current_year, idx, transactions>>

\* parse_transactions, the year loop: current_year = datetime.now().year,
\* replaced by the first year found in text_lines[:10]
FindYear ==
    /\ fn = "parse_transactions" /\ pc = "find_year"
    /\ current_year' = document_year(text_lines)
    /\ pc' = "lines"
    /\ UNCHANGED <<fn, arg, year_arg, now_year, pads_year, text_lines, idx,
                   transactions, ret>>

\* `if transaction: transactions.append(transaction)`.  line_no is not a
\* key of the dict: it records which line the transaction came from.
AppendParsed(list, transaction, line_no) ==
    IF transaction # None
    THEN Append(list, [date |-> transaction.date,
                       description |-> transaction.description,
                       amount_out |-> transaction.amount_out,
                       amount_in |-> transaction.amount_in,
                       balance |-> transaction.balance,
                       line_no |-> line_no])
    ELSE list

\* parse_transactions, one pass of `for line in text_lines`
ProcessLine ==
    /\ fn = "parse_transactions" /\ pc = "lines"
    /\ idx < Len(text_lines)
    /\ transactions' =
           AppendParsed(transactions,
                        parse_transaction_line(text_lines[idx + 1], current_year),
                        idx + 1)
    /\ idx' = idx + 1
    /\ UNCHANGED <<fn, pc, arg, year_arg, now_year, pads_year, text_lines,
                   current_year, ret>>

\* parse_transactions, after the loop: sort and return
SortAndReturn ==
    /\ fn = "parse_transactions" /\ pc = "lines"
    /\ idx = Len(text_lines)
    /\ transactions' = sort_by_date(transactions)
    /\ ret' = transactions'
    /\ pc' = "done"
    /\ UNCHANGED <<fn, arg, year_arg, now_year, pads_year, text_lines,
                   current_year, idx>>

\* parse_transactions on a document
Init == InitDocument
Next == FindYear \/ ProcessLine \/ SortAndReturn
Spec == Init /\ [][Next]_vars

\* parse_date on a date string
NextDate == ParseDate
SpecDate == InitDate /\ [][NextDate]_vars

\* parse_transaction_line on a line
NextLine == ParseTransactionLine
SpecLine == InitLine /\ [][NextLine]_vars

\* parse_amount on a string, and parse_transaction_line on a line
InitAmountOrLine == InitAmount \/ InitLine
NextAmountOrLine == ParseAmount \/ ParseTransactionLine
SpecAmount == InitAmountOrLine /\ [][NextAmountOrLine]_vars

(***************************************************************************)
(* Properties                                                               *)
(***************************************************************************)
Returned == pc = "done"

\* The parts of a line that the properties speak of.
DateToken(line) == date_pattern(Lower(line))
HasOwnYear(line) == DateToken(line).ok /\ DateToken(line).g3 # None
RestAfterDate(line) == From(line, DateToken(line).end)
AmountsAfterDate(line) == ParsedAmounts(RestAfterDate(line))

\* The year a returned ISO date states: the digits before its first '-'.
YearOf(date) ==
    IntOf(SubSeq(date, 1, Min({i \in DOMAIN date : date[i] = "-"}) - 1))

\* The three steps of a line: classification, extraction, date resolution.
Classified(line) == is_transaction_line(line)
Extracted(line) == DateToken(line).ok /\ amount_pattern(RestAfterDate(line)).ok
DateResolved(line, year) ==
    /\ DateToken(line).ok
    /\ parse_date(SubSeq(Lower(line), DateToken(line).start + 1,
                         DateToken(line).end), year) # None
AllStepsSucceed(line, year) ==
    Classified(line) /\ Extracted(line) /\ DateResolved(line, year)

\* C1: the list parse_transactions returns is sorted non-decreasing by date,
\* and transactions of equal date keep the order of the lines they came from.
C1_SortedStable ==
    (fn = "parse_transactions" /\ Returned) =>
        \A i, j \in DOMAIN ret :
            i < j => /\ ~StrLess(ret[j].date, ret[i].date)
                     /\ (ret[i].date = ret[j].date
                            => ret[i].line_no < ret[j].line_no)

\* C1's case: three transactions were returned, two of one date, and the
\* sort moved a transaction in front of one from an earlier line.
C1_Witness ==
    /\ fn = "parse_transactions" /\ Returned
    /\ Len(ret) >= 3
    /\ \E i, j \in DOMAIN ret : i < j /\ ret[i].date = ret[j].date
    /\ \E i, j \in DOMAIN ret : i < j /\ ret[i].line_no > ret[j].line_no

\* C2: parse_transactions never raises; a line on which classification,
\* extraction or date resolution fails adds nothing and does not stop the
\* other lines, so the lines processed so far that pass all three steps are
\* exactly the lines of the collected transactions, once each, and every
\* transaction has a date.
C2_OnePerGoodLine ==
    fn = "parse_transactions" /\ pc \in {"lines", "done"} =>
        /\ {transactions[k].line_no : k \in DOMAIN transactions}
             = {i \in 1..idx : AllStepsSucceed(text_lines[i], current_year)}
        /\ \A k, l \in DOMAIN transactions :
               transactions[k].line_no = transactions[l].line_no => k = l
        /\ \A k \in DOMAIN transactions :
               transactions[k].date # None /\ transactions[k].date # <<>>
        /\ (Returned => ret = transactions /\ idx = Len(text_lines))

\* C2's case: the call returned a transaction of a line that comes after a
\* line whose date does not resolve and after a line that is not classified.
C2_Witness ==
    /\ fn = "parse_transactions" /\ Returned
    /\ \E k \in DOMAIN ret : \E i, j \in 1..(ret[k].line_no - 1) :
          /\ Classified(text_lines[i]) /\ Extracted(text_lines[i])
          /\ ~DateResolved(text_lines[i], current_year)
          /\ ~Classified(text_lines[j])

\* C3: with exactly two amounts [a0, a1] after the date, the transaction has
\* balance a1, amount_out a0 when a0 >= 0 and |a0| otherwise, and no
\* amount_in.
C3_TwoAmounts ==
    (fn = "parse_transaction_line" /\ Returned /\ ret # None
        /\ Len(AmountsAfterDate(arg)) = 2) =>
        LET a == AmountsAfterDate(arg)
        IN /\ ret.balance = a[2]
           /\ ret.amount_out = IF ~IsNegative(a[1]) THEN a[1] ELSE Abs(a[1])
           /\ ret.amount_in = None

\* C3's case: a transaction of a line with two amounts, the first negative.
C3_Witness ==
    /\ fn = "parse_transaction_line" /\ Returned /\ ret # None
    /\ Len(AmountsAfterDate(arg)) = 2
    /\ IsNegative(AmountsAfterDate(arg)[1])
    /\ ret.amount_out = Abs(AmountsAfterDate(arg)[1])

\* C4: with three or more amounts [a0, a1, ..., aN] after the date, the
\* transaction has balance aN, amount_out a0 when a0 > 0 and none otherwise,
\* and amount_in a1: the amounts between a1 and aN are in no field.
C4_ThreeOrMoreAmounts ==
    (fn = "parse_transaction_line" /\ Returned /\ ret # None
        /\ Len(AmountsAfterDate(arg)) >= 3) =>
        LET a == AmountsAfterDate(arg)
        IN /\ ret.balance = a[Len(a)]
           /\ ret.amount_out = IF IsPositive(a[1]) THEN a[1] ELSE None
           /\ ret.amount_in = a[2]

\* C4's case: a transaction of a line with four or more amounts whose first
\* is not positive and whose third is the value of no field.
C4_Witness ==
    /\ fn = "parse_transaction_line" /\ Returned /\ ret # None
    /\ Len(AmountsAfterDate(arg)) >= 4
    /\ ~IsPositive(AmountsAfterDate(arg)[1])
    /\ AmountsAfterDate(arg)[3] \notin {ret.amount_out, ret.amount_in, ret.balance}

\* C5: a line yields a transaction only if it holds a date token and an
\* amount token and is 20 to 200 characters long.
C5_OnlyQualifyingLines ==
    (fn = "parse_transaction_line" /\ Returned /\ ret # None) =>
        /\ \E i \in DOMAIN arg : DateMatchAt(Lower(arg), i).ok
        /\ \E i \in DOMAIN arg : AmountMatchAt(arg, i).ok
        /\ MinLineLen <= Len(arg) /\ Len(arg) <= MaxLineLen

\* C5's case: a line of 201 characters with a date that resolves and an
\* amount after it yields nothing.
C5_Witness ==
    /\ fn = "parse_transaction_line" /\ Returned /\ ret = None
    /\ Len(arg) = MaxLineLen + 1
    /\ Extracted(arg) /\ DateResolved(arg, year_arg)

\* The fallback year as C6 states it: the first standalone 20dd token of
\* the first ten lines, line by line and left to right, else the current
\* year.
C6_YearTokens(lines) ==
    UNION {{<<k, i>> : i \in {j \in DOMAIN lines[k] : YearMatchAt(lines[k], j)}} :
              k \in {n \in DOMAIN lines : n <= YearScanLines}}
C6_FallbackYear(lines) ==
    LET tokens == C6_YearTokens(lines)
    IN IF tokens = {} THEN now_year
       ELSE LET first == CHOOSE p \in tokens : \A q \in tokens :
                             p[1] < q[1] \/ (p[1] = q[1] /\ p[2] <= q[2])
            IN IntOf(SubSeq(lines[first[1]], first[2], first[2] + 3))

\* C6: in one parse_transactions call, every transaction whose date token
\* has no year of its own is dated in the fallback year, which is the first
\* standalone 20dd token of the first ten lines or else the current year;
\* lines after the tenth do not change it.
C6_FallbackYearUsed ==
    fn = "parse_transactions" /\ pc \in {"lines", "done"} =>
        /\ current_year = C6_FallbackYear(text_lines)
        /\ \A k \in DOMAIN transactions :
               ~HasOwnYear(text_lines[transactions[k].line_no])
                   => YearOf(transactions[k].date) = C6_FallbackYear(text_lines)

\* C6's case: the first ten lines hold no year, the eleventh does, and a
\* transaction without a year of its own was returned, dated in the current
\* year.
C6_Witness ==
    /\ fn = "parse_transactions" /\ Returned
    /\ Len(text_lines) > YearScanLines
    /\ \A i \in 1..YearScanLines : year_pattern(text_lines[i]) = None
    /\ year_pattern(text_lines[YearScanLines + 1]) # None
    /\ \E k \in DOMAIN ret :
          /\ ~HasOwnYear(text_lines[ret[k].line_no])
          /\ YearOf(ret[k].date) = now_year

\* The string C7 has parse_amount read: the currency marker and surrounding
\* whitespace removed, the separators resolved, the spaces deleted.
C7_Text(s) ==
    LET bare == Strip(SelectSeq(s, LAMBDA c : c # "EUR"))
        commas == {i \in DOMAIN bare : bare[i] = ","}
        points == {i \in DOMAIN bare : bare[i] = "."}
        resolved == IF commas # {} /\ points # {}
                    THEN [i \in DOMAIN bare |-> IF i \in commas THEN "." ELSE
                                               IF i \in points THEN "" ELSE bare[i]]
                    ELSE [i \in DOMAIN bare |-> IF i \in commas THEN "." ELSE bare[i]]
    IN SelectSeq(resolved, LAMBDA c : c \notin {"", " "})

\* Whether a string is a decimal numeral: an optional sign, digits around at
\* most one point, one digit at least.
C7_IsNumeral(t) ==
    \E sign \in {<<>>, <<"+">>, <<"-">>} :
        \E p \in 0..Len(t) : \E q \in 0..Len(t) :
            /\ Len(sign) + p + q <= Len(t) /\ Len(t) <= Len(sign) + p + q + 1
            /\ p + q >= 1
            /\ SubSeq(t, 1, Len(sign)) = sign
            /\ \A i \in 1..p : IsDigit(t[Len(sign) + i])
            /\ \A i \in 1..q : IsDigit(t[Len(t) - q + i])
            /\ (Len(t) = Len(sign) + p + q + 1 => t[Len(sign) + p + 1] = ".")

\* Whether the float x is the number the numeral t denotes: the digits of t
\* weighted by their place, compared with x after clearing denominators.
C7_Denotes(t, x) ==
    LET digits == {i \in DOMAIN t : IsDigit(t[i])}
        point == IF \E i \in DOMAIN t : t[i] = "."
                 THEN CHOOSE i \in DOMAIN t : t[i] = "." ELSE Len(t) + 1
        places == Cardinality({i \in digits : i > point})
        RECURSIVE Sum(_)
        Sum(S) == IF S = {} THEN 0
                  ELSE LET i == CHOOSE k \in S : TRUE
                       IN DigitVal(t[i])
                            * Pow10(IF i < point THEN point - 1 - i + places
                                    ELSE places - (i - point))
                          + Sum(S \ {i})
        negative == t # <<>> /\ t[1] = "-"
    IN /\ x.mant * Pow10(places) = Sum(digits) * Pow10(x.scale)
       /\ (x.mant > 0 => x.neg = negative)

\* C7: parse_amount returns for every string the number its normalised text
\* denotes and 0 when that text is no number; and a line that passes the
\* three steps yields its transaction also when one of its amount tokens
\* is no number.
C7_ParseAmount ==
    /\ (fn = "parse_amount" /\ Returned) =>
          IF C7_IsNumeral(C7_Text(arg))
          THEN C7_Denotes(C7_Text(arg), ret)
          ELSE ret.mant = 0 /\ ret.scale = 0
    /\ (fn = "parse_transaction_line" /\ Returned
          /\ AllStepsSucceed(arg, year_arg)) =>
          /\ ret # None
          /\ \A k \in DOMAIN AmountsAfterDate(arg) :
                LET token == FindAllAmounts(RestAfterDate(arg), 0)[k]
                IN ~C7_IsNumeral(C7_Text(token))
                      => AmountsAfterDate(arg)[k] = Zero

\* C7's case: "EUR1.234,56", with both separators, was read as 1234.56.
C7_Witness ==
    /\ fn = "parse_amount" /\ Returned
    /\ arg = <<"EUR", "1", ".", "2", "3", "4", ",", "5", "6">>
    /\ ret = [neg |-> FALSE, mant |-> 123456, scale |-> 2]

\* C8: in every transaction, amount_out is not negative when present and
\* amount_in is not negative when present.
C8_NonNegativeAmounts ==
    (fn = "parse_transaction_line" /\ Returned /\ ret # None) =>
        /\ (ret.amount_out # None => ~IsNegative(ret.amount_out))
        /\ (ret.amount_in # None => ~IsNegative(ret.amount_in))

\* The line of C9 and the amounts it states.
C9_Line ==
    <<"1", " ", "a", "v", "r", ".", " ", "2", "0", "2", "5", " ", "C", "i", "g", "u", "s", "t", "o", " ", "O", "r", "l", "e", "a", "n", "s", " ", "EUR", "5", ".", "9", "0", " ", "EUR", "3", "0", ".", "6", "1">>
C9_Description == <<"C", "i", "g", "u", "s", "t", "o", " ", "O", "r", "l", "e", "a", "n", "s">>
C9_AmountOut == [neg |-> FALSE, mant |-> 59, scale |-> 1]
C9_Balance == [neg |-> FALSE, mant |-> 3061, scale |-> 2]

\* C9 as stated: the line "1 avr. 2025 Cigusto Orleans EUR5.90 EUR30.61"
\* parses to date 2025-04-04, description "Cigusto Orleans", amount_out
\* 5.90, no amount_in, balance 30.61.
C9_AsStated ==
    (fn = "parse_transaction_line" /\ Returned /\ arg = C9_Line) =>
        ret = [date |-> <<"2", "0", "2", "5", "-", "0", "4", "-", "0", "4">>, description |-> C9_Description,
               amount_out |-> C9_AmountOut, amount_in |-> None,
               balance |-> C9_Balance]

\* C9, amended: the same line parses to date 2025-04-01 (the day the line
\* states), description "Cigusto Orleans", amount_out 5.90, no amount_in,
\* balance 30.61.
C9_FirstOfApril ==
    (fn = "parse_transaction_line" /\ Returned /\ arg = C9_Line) =>
        ret = [date |-> <<"2", "0", "2", "5", "-", "0", "4", "-", "0", "1">>, description |-> C9_Description,
               amount_out |-> C9_AmountOut, amount_in |-> None,
               balance |-> C9_Balance]

\* C9's case: the line was parsed and gave a transaction.
C9_Witness ==
    /\ fn = "parse_transaction_line" /\ Returned /\ arg = C9_Line
    /\ ret # None /\ ret.description = C9_Description

\* C10 as stated: parse_date dates in the token's own year when it has one,
\* else in the fallback year, and returns no date when the token has no
\* year and no fallback year is given.
C10_AsStated ==
    (fn = "parse_date" /\ Returned) =>
        /\ (ret # None =>
               YearOf(ret) = IF HasOwnYear(arg) THEN IntOf(DateToken(arg).g3)
                             ELSE year_arg)
        /\ (~HasOwnYear(arg) /\ year_arg = NoYear => ret = None)

\* C10, amended: parse_date dates in the token's own year when it has one,
\* else in the fallback year when one is given, else in the current
\* calendar year; it substitutes no other year.
C10_YearUsed ==
    (fn = "parse_date" /\ Returned /\ ret # None) =>
        YearOf(ret) = IF HasOwnYear(arg) THEN IntOf(DateToken(arg).g3)
                      ELSE IF year_arg # NoYear THEN year_arg
                      ELSE now_year

\* C10's case: a date without a year, parsed without a fallback year, was
\* dated in the current year.
C10_Witness ==
    /\ fn = "parse_date" /\ Returned /\ ret # None
    /\ ~HasOwnYear(arg) /\ year_arg = NoYear
    /\ YearOf(ret) = now_year

====
